---- MODULE Spec2Model ----
(***************************************************************************)
(* A model of wireviz's Harness (src/src/wireviz/wv_harness.py): the       *)
(* registration of connectors and cables, connect and its reference        *)
(* resolution, the mates, the BOM aggregation and the cached graph.        *)
(*                                                                         *)
(* Python values: designators, pin identifiers, pin labels, colors and     *)
(* wire labels are strings.  A wire reference is either a Python str or a  *)
(* Python int, which never compare equal; it is modelled as a tagged       *)
(* record [str |-> s] or [int |-> i].  None is the string None for a name  *)
(* and the record NonePin for a pin object.  A dict is a sequence of its   *)
(* values in insertion order, keyed by the value's designator.             *)
(***************************************************************************)
EXTENDS Integers, Sequences, FiniteSets, TLC

VARIABLES
    connectors,            \* self.connectors: dict designator -> Connector
    cables,                \* self.cables: dict designator -> Cable
    mates,                 \* self.mates: list of MatePin / MateComponent
    additional_bom_items,  \* self.additional_bom_items
    bom,                   \* self.bom: defaultdict(dict), hash -> entry
    cached_graph,          \* self._graph, NoGraph while None
    raised,                \* the exception the last call ended with, or NoError
    connect_runs,          \* number of connect calls that recorded a connection
    create_graph_runs,     \* number of times create_graph has run
    populate_runs          \* number of times populate_bom has run

vars == <<connectors, cables, mates, additional_bom_items, bom, cached_graph,
          raised, connect_runs, create_graph_runs, populate_runs>>

(***************************************************************************)
(* Bounds of the model.                                                    *)
(***************************************************************************)
MaxConnections == 1   \* connect calls that record a connection
MaxMates == 1         \* entries of self.mates
MaxPopulate == 2      \* populate_bom calls
MaxAdditional == 1    \* free-standing additional BOM items

None == "None"
NoError == "none"
AmbiguousError == "ambiguous"        \* "... for different pins/wires."
DuplicateError == "duplicate"        \* "... defined more than once."
NotFoundError == "not found"         \* "... not found."
KeyError == "KeyError"               \* a failed dict lookup

ConnectorNames == {"X1", "X2"}
CableNames == {"W1"}
Pins == <<"1", "2">>
PinRefs == {"1", "2", "A"}
LabelAlphabet == {"2", "A"}

LEFT == "left"
RIGHT == "right"

(***************************************************************************)
(* Python list and dict primitives.                                        *)
(***************************************************************************)
Range(s) == {s[i] : i \in 1..Len(s)}

\* x in list
In(x, list) == \E i \in 1..Len(list) : list[i] = x

\* list.index(x): the first position of x (1-based here, 0-based in Python)
Index(list, x) == CHOOSE i \in 1..Len(list) :
                      list[i] = x /\ \A j \in 1..(i - 1) : list[j] # x

\* list.count(x)
Count(list, x) == Cardinality({i \in 1..Len(list) : list[i] = x})

\* name in dict
Has(dict, name) == \E i \in 1..Len(dict) : dict[i].designator = name

\* dict[name], for a name in the dict
Get(dict, name) == dict[CHOOSE i \in 1..Len(dict) : dict[i].designator = name]

\* dict[name] = value: an existing key keeps its position, a new one is appended
Put(dict, name, value) ==
    IF Has(dict, name)
    THEN [i \in 1..Len(dict) |-> IF dict[i].designator = name THEN value ELSE dict[i]]
    ELSE Append(dict, value)

IsStr(v) == "str" \in DOMAIN v
IsInt(v) == "int" \in DOMAIN v
StrRef(s) == [str |-> s]
IntRef(i) == [int |-> i]

\* via_wire in list, for a list of strings
WireIn(v, list) == IsStr(v) /\ In(v.str, list)

(***************************************************************************)
(* Connector, Cable and their pin and wire objects (wv_dataclasses).       *)
(***************************************************************************)
InactivePin == [left |-> FALSE, right |-> FALSE, connected |-> FALSE]

NonePin == [designator |-> None, id |-> None]

PinObject(designator, pin) == [designator |-> designator, id |-> pin]

\* Connector(designator=designator, **kwargs)
Connector(designator, kwargs) ==
    [class |-> "Connector",
     designator |-> designator,
     pins |-> Pins,
     pinlabels |-> kwargs.pinlabels,
     category |-> None,
     pin_objects |-> [p \in Range(Pins) |-> InactivePin],
     ignore_in_bom |-> kwargs.ignore_in_bom,
     bom_qty |-> kwargs.bom_qty,
     bom_hash |-> kwargs.bom_hash,
     additional_components |-> kwargs.additional_components]

\* Cable(designator=designator, **kwargs)
Cable(designator, kwargs) ==
    [class |-> "Cable",
     designator |-> designator,
     category |-> kwargs.category,
     colors |-> kwargs.colors,
     wirelabels |-> kwargs.wirelabels,
     wire_objects |-> [i \in 1..Len(kwargs.colors) |->
                         [id |-> i, bom_hash |-> kwargs.wire_hashes[i]]],
     connections |-> <<>>,
     ignore_in_bom |-> kwargs.ignore_in_bom,
     bom_qty |-> kwargs.bom_qty,
     bom_hash |-> kwargs.bom_hash,
     additional_components |-> kwargs.additional_components]

\* Connector.activate_pin(pin, side, is_connection)
activate_pin(connector, pin, side, is_connection) ==
    [connector EXCEPT !.pin_objects[pin] =
        [left |-> @.left \/ side = LEFT,
         right |-> @.right \/ side = RIGHT,
         connected |-> @.connected \/ is_connection]]

\* Cable._connect(from_pin_obj, via_wire, to_pin_obj): looks the wire up, then appends
CableConnect(cable, from_pin_obj, via_wire, to_pin_obj) ==
    IF IsInt(via_wire) /\ via_wire.int \in DOMAIN cable.wire_objects
    THEN [raised |-> NoError,
          cable |-> [cable EXCEPT !.connections =
                        Append(@, <<from_pin_obj, via_wire.int, to_pin_obj>>)]]
    ELSE [raised |-> KeyError, cable |-> cable]

(***************************************************************************)
(* Registration.                                                           *)
(***************************************************************************)
add_connector(designator, kwargs) ==
    /\ connectors' = Put(connectors, designator, Connector(designator, kwargs))
    /\ raised' = NoError
    /\ UNCHANGED <<cables, mates, additional_bom_items, bom, cached_graph,
                   connect_runs, create_graph_runs, populate_runs>>

add_cable(designator, kwargs) ==
    /\ cables' = Put(cables, designator, Cable(designator, kwargs))
    /\ raised' = NoError
    /\ UNCHANGED <<connectors, mates, additional_bom_items, bom, cached_graph,
                   connect_runs, create_graph_runs, populate_runs>>

(***************************************************************************)
(* connect: the check of the two connector endpoints.                      *)
(***************************************************************************)
\* CheckPin without the count of the label's occurrences
CheckPin_NoCount(connector, pin) ==
    IF /\ In(pin, connector.pins)
       /\ In(pin, connector.pinlabels)
       /\ Index(connector.pins, pin) # Index(connector.pinlabels, pin)
    THEN [raised |-> AmbiguousError, pin |-> pin, mapped |-> FALSE]
    ELSE IF In(pin, connector.pinlabels)
    THEN [raised |-> NoError, pin |-> connector.pins[Index(connector.pinlabels, pin)],
          mapped |-> TRUE]
    ELSE [raised |-> IF In(pin, connector.pins) THEN NoError ELSE NotFoundError,
          pin |-> pin, mapped |-> FALSE]

\* CheckPin refusing every reference found in both lists, whatever the positions
CheckPin_StrictBoth(connector, pin) ==
    IF In(pin, connector.pins) /\ In(pin, connector.pinlabels)
    THEN [raised |-> AmbiguousError, pin |-> pin, mapped |-> FALSE]
    ELSE IF In(pin, connector.pinlabels)
    THEN IF Count(connector.pinlabels, pin) > 1
         THEN [raised |-> DuplicateError, pin |-> pin, mapped |-> FALSE]
         ELSE [raised |-> NoError, pin |-> connector.pins[Index(connector.pinlabels, pin)],
               mapped |-> TRUE]
    ELSE [raised |-> IF In(pin, connector.pins) THEN NoError ELSE NotFoundError,
          pin |-> pin, mapped |-> FALSE]

\* One pass of the loop body for a registered connector: the exception it raises
\* (or NoError), the value of the loop variable pin at the end of the pass, and
\* whether the pass took the branch that maps a pin label to a pin.
CheckPin(connector, pin) ==
    IF /\ In(pin, connector.pins)
       /\ In(pin, connector.pinlabels)
       /\ Index(connector.pins, pin) # Index(connector.pinlabels, pin)
    THEN [raised |-> AmbiguousError, pin |-> pin, mapped |-> FALSE]
    ELSE IF In(pin, connector.pinlabels)
    THEN IF Count(connector.pinlabels, pin) > 1
         THEN [raised |-> DuplicateError, pin |-> pin, mapped |-> FALSE]
         ELSE LET mapped_pin == connector.pins[Index(connector.pinlabels, pin)]
              IN  [raised |-> IF In(mapped_pin, connector.pins) THEN NoError ELSE NotFoundError,
                   pin |-> mapped_pin, mapped |-> TRUE]
    ELSE [raised |-> IF In(pin, connector.pins) THEN NoError ELSE NotFoundError,
          pin |-> pin, mapped |-> FALSE]

\* One iteration of "for (name, pin) in zip([from_name, to_name], [from_pin, to_pin])"
\* on the local variables from_pin and to_pin held in acc.
CheckEndpoint(conns, acc, name, pin, from_name, to_name) ==
    IF acc.raised # NoError \/ name = None \/ ~Has(conns, name)
    THEN acc
    ELSE LET r == CheckPin(Get(conns, name), pin)
         IN  IF r.mapped
             THEN [raised |-> r.raised,
                   from_pin |-> IF name = from_name THEN r.pin ELSE acc.from_pin,
                   to_pin |-> IF name = to_name THEN r.pin ELSE acc.to_pin]
             ELSE [acc EXCEPT !.raised = r.raised]

\* The whole loop: the zip is built from the arguments before the first iteration.
CheckEndpoints(conns, from_name, from_pin, to_name, to_pin) ==
    LET start == [raised |-> NoError, from_pin |-> from_pin, to_pin |-> to_pin]
        first == CheckEndpoint(conns, start, from_name, from_pin, from_name, to_name)
    IN  CheckEndpoint(conns, first, to_name, to_pin, from_name, to_name)

(***************************************************************************)
(* connect: the check of the via cable.                                    *)
(***************************************************************************)
CheckWire(cbls, via_name, via_wire) ==
    IF ~Has(cbls, via_name)
    THEN [raised |-> NoError, via_wire |-> via_wire]
    ELSE LET cable == Get(cbls, via_name)
         IN  IF /\ WireIn(via_wire, cable.colors)
                /\ WireIn(via_wire, cable.wirelabels)
                /\ Index(cable.colors, via_wire.str) # Index(cable.wirelabels, via_wire.str)
             THEN [raised |-> AmbiguousError, via_wire |-> via_wire]
             ELSE IF WireIn(via_wire, cable.colors)
             THEN IF Count(cable.colors, via_wire.str) > 1
                  THEN [raised |-> DuplicateError, via_wire |-> via_wire]
                  ELSE [raised |-> NoError,
                        via_wire |-> IntRef(Index(cable.colors, via_wire.str))]
             ELSE IF WireIn(via_wire, cable.wirelabels)
             THEN IF Count(cable.wirelabels, via_wire.str) > 1
                  THEN [raised |-> DuplicateError, via_wire |-> via_wire]
                  ELSE [raised |-> NoError,
                        via_wire |-> IntRef(Index(cable.wirelabels, via_wire.str))]
             ELSE [raised |-> NoError, via_wire |-> via_wire]

(***************************************************************************)
(* connect: "perform the actual connection".                               *)
(***************************************************************************)
\* self.connectors[name].pin_objects[pin], or None for an unset name
PinLookup(conns, name, pin) ==
    IF name = None
    THEN [raised |-> NoError, obj |-> NonePin]
    ELSE IF Has(conns, name) /\ pin \in DOMAIN Get(conns, name).pin_objects
    THEN [raised |-> NoError, obj |-> PinObject(name, pin)]
    ELSE [raised |-> KeyError, obj |-> NonePin]

\* "if name in self.connectors: self.connectors[name].activate_pin(pin, side)"
ActivateIfKnown(conns, name, pin, side) ==
    IF Has(conns, name)
    THEN Put(conns, name, activate_pin(Get(conns, name), pin, side, TRUE))
    ELSE conns

\* PerformConnection recording the connection before it looks up the to connector
PerformConnection_RecordFirst(conns, cbls, from_name, from_pin, via_name, via_wire, to_name, to_pin) ==
    LET from_obj == PinLookup(conns, from_name, from_pin)
        to_obj == PinLookup(conns, to_name, to_pin)
        unchanged(err) == [raised |-> err, connectors |-> conns, cables |-> cbls]
    IN  IF from_obj.raised # NoError THEN unchanged(from_obj.raised)
        ELSE IF ~Has(cbls, via_name) THEN unchanged(KeyError)
        ELSE LET c == CableConnect(Get(cbls, via_name), from_obj.obj, via_wire, to_obj.obj)
             IN  IF c.raised # NoError THEN unchanged(c.raised)
                 ELSE IF to_obj.raised # NoError
                 THEN [raised |-> to_obj.raised, connectors |-> conns,
                       cables |-> Put(cbls, via_name, c.cable)]
                 ELSE [raised |-> NoError,
                       connectors |-> ActivateIfKnown(
                                          ActivateIfKnown(conns, from_name, from_pin, RIGHT),
                                          to_name, to_pin, LEFT),
                       cables |-> Put(cbls, via_name, c.cable)]

PerformConnection(conns, cbls, from_name, from_pin, via_name, via_wire, to_name, to_pin) ==
    LET from_obj == PinLookup(conns, from_name, from_pin)
        to_obj == PinLookup(conns, to_name, to_pin)
        unchanged(err) == [raised |-> err, connectors |-> conns, cables |-> cbls]
    IN  IF from_obj.raised # NoError THEN unchanged(from_obj.raised)
        ELSE IF to_obj.raised # NoError THEN unchanged(to_obj.raised)
        ELSE IF ~Has(cbls, via_name) THEN unchanged(KeyError)
        ELSE LET c == CableConnect(Get(cbls, via_name), from_obj.obj, via_wire, to_obj.obj)
             IN  IF c.raised # NoError THEN unchanged(c.raised)
                 ELSE [raised |-> NoError,
                       connectors |-> ActivateIfKnown(
                                          ActivateIfKnown(conns, from_name, from_pin, RIGHT),
                                          to_name, to_pin, LEFT),
                       cables |-> Put(cbls, via_name, c.cable)]

\* Harness.connect as a function of the harness and the arguments: the exception
\* raised (or NoError) and the connectors and cables the call leaves behind.
ConnectResult(conns, cbls, from_name, from_pin, via_name, via_wire, to_name, to_pin) ==
    LET e == CheckEndpoints(conns, from_name, from_pin, to_name, to_pin)
        w == CheckWire(cbls, via_name, via_wire)
    IN  IF e.raised # NoError
        THEN [raised |-> e.raised, connectors |-> conns, cables |-> cbls]
        ELSE IF w.raised # NoError
        THEN [raised |-> w.raised, connectors |-> conns, cables |-> cbls]
        ELSE PerformConnection(conns, cbls, from_name, e.from_pin, via_name, w.via_wire,
                               to_name, e.to_pin)

connect(from_name, from_pin, via_name, via_wire, to_name, to_pin) ==
    LET r == ConnectResult(connectors, cables, from_name, from_pin, via_name, via_wire,
                           to_name, to_pin)
    IN  /\ connect_runs < MaxConnections
        /\ connectors' = r.connectors
        /\ cables' = r.cables
        /\ raised' = r.raised
        /\ connect_runs' = IF r.raised = NoError THEN connect_runs + 1 ELSE connect_runs
        /\ UNCHANGED <<mates, additional_bom_items, bom, cached_graph,
                       create_graph_runs, populate_runs>>

(***************************************************************************)
(* Mates.                                                                  *)
(***************************************************************************)
MatePin(from_pin_obj, to_pin_obj) ==
    [class |-> "MatePin", from_pin |-> from_pin_obj, to_pin |-> to_pin_obj]

MateComponent(from_name, to_name) ==
    [class |-> "MateComponent", from_name |-> from_name, to_name |-> to_name]

\* self.connectors[name].pin_objects[pin]: a plain lookup of the raw reference
MatePinLookup(conns, name, pin) ==
    IF Has(conns, name) /\ pin \in DOMAIN Get(conns, name).pin_objects
    THEN [raised |-> NoError, obj |-> PinObject(name, pin)]
    ELSE [raised |-> KeyError, obj |-> NonePin]

\* Harness.add_mate_pin as a function of the harness and the arguments
MatePinResult(conns, mts, from_name, from_pin, to_name, to_pin) ==
    LET from_obj == MatePinLookup(conns, from_name, from_pin)
        to_obj == MatePinLookup(conns, to_name, to_pin)
    IN  IF from_obj.raised # NoError
        THEN [raised |-> from_obj.raised, connectors |-> conns, mates |-> mts]
        ELSE IF to_obj.raised # NoError
        THEN [raised |-> to_obj.raised, connectors |-> conns, mates |-> mts]
        ELSE LET c1 == Put(conns, from_name,
                           activate_pin(Get(conns, from_name), from_pin, RIGHT, FALSE))
                 c2 == Put(c1, to_name,
                           activate_pin(Get(c1, to_name), to_pin, LEFT, FALSE))
             IN  [raised |-> NoError, connectors |-> c2,
                  mates |-> Append(mts, MatePin(from_obj.obj, to_obj.obj))]

add_mate_pin(from_name, from_pin, to_name, to_pin) ==
    LET r == MatePinResult(connectors, mates, from_name, from_pin, to_name, to_pin)
    IN  /\ Len(mates) < MaxMates
        /\ connectors' = r.connectors
        /\ mates' = r.mates
        /\ raised' = r.raised
        /\ UNCHANGED <<cables, additional_bom_items, bom, cached_graph,
                       connect_runs, create_graph_runs, populate_runs>>

add_mate_component(from_name, to_name) ==
    /\ Len(mates) < MaxMates
    /\ mates' = Append(mates, MateComponent(from_name, to_name))
    /\ raised' = NoError
    /\ UNCHANGED <<connectors, cables, additional_bom_items, bom, cached_graph,
                   connect_runs, create_graph_runs, populate_runs>>

(***************************************************************************)
(* The BOM.                                                                *)
(***************************************************************************)
AdditionalComponent(item) ==
    [class |-> "AdditionalComponent",
     bom_hash |-> item.bom_hash,
     bom_qty |-> item.bom_qty,
     ignore_in_bom |-> item.ignore_in_bom]

add_additional_bom_item(item) ==
    /\ Len(additional_bom_items) < MaxAdditional
    /\ additional_bom_items' = Append(additional_bom_items, AdditionalComponent(item))
    /\ raised' = NoError
    /\ UNCHANGED <<connectors, cables, mates, bom, cached_graph,
                   connect_runs, create_graph_runs, populate_runs>>

\* des.startswith(AUTOGENERATED_PREFIX), over the designators of the model
AutogeneratedDesignators == {"__X2"}
StartsWithAutogeneratedPrefix(des) == des \in AutogeneratedDesignators

EmptyBom == [h \in {} |-> 0]

\* BomAdd replacing the designators of the entry instead of adding to them
BomAdd_ReplaceDesignators(b, hash, qty, designator, category) ==
    LET bom_entry == IF hash \in DOMAIN b THEN b[hash]
                     ELSE [qty |-> 0, designators |-> {}, category |-> None]
        added == IF designator = None THEN {} ELSE {designator}
        updated == [qty |-> bom_entry.qty + qty, designators |-> added,
                    category |-> category]
    IN  [h \in DOMAIN b \cup {hash} |-> IF h = hash THEN updated ELSE b[h]]

\* _add(hash, qty, designator, category) on the mapping b; a designator is a str or None
BomAdd(b, hash, qty, designator, category) ==
    LET bom_entry == IF hash \in DOMAIN b THEN b[hash]
                     ELSE [qty |-> 0, designators |-> {}, category |-> None]
        designator_list == IF designator = None THEN <<>> ELSE <<designator>>
        added == {des \in Range(designator_list) :
                     des # "" /\ ~StartsWithAutogeneratedPrefix(des)}
        updated == [qty |-> bom_entry.qty + qty,
                    designators |-> bom_entry.designators \cup added,
                    category |-> category]
    IN  [h \in DOMAIN b \cup {hash} |-> IF h = hash THEN updated ELSE b[h]]

\* The category cat of a TopLevelGraphicalComponent
ItemCategory(item) ==
    IF item.class = "Connector" THEN "connector"
    ELSE IF item.class = "Cable"
    THEN IF item.category = "bundle" THEN "wire" ELSE "cable"
    ELSE ""

\* The _add calls of the additional components of a top-level item
AdditionalCalls(item) ==
    LET comps == item.additional_components
        kept == SelectSeq(comps, LAMBDA comp : ~comp.ignore_in_bom)
    IN  [i \in 1..Len(kept) |->
            [hash |-> kept[i].bom_hash, qty |-> kept[i].bom_qty,
             designator |-> item.designator,
             category |-> ItemCategory(item) \o "_additional"]]

\* BundleCalls adding an entry for the bundle itself before those of its wires
BundleCalls_OwnEntry(item) ==
    <<[hash |-> item.bom_hash, qty |-> item.bom_qty,
       designator |-> item.designator, category |-> ItemCategory(item)]>>
    \o [i \in 1..Len(item.wire_objects) |->
           [hash |-> item.wire_objects[i].bom_hash, qty |-> item.bom_qty,
            designator |-> item.designator, category |-> ItemCategory(item)]]

\* The _add calls of the wires of a bundle
BundleCalls(item) ==
    [i \in 1..Len(item.wire_objects) |->
        [hash |-> item.wire_objects[i].bom_hash, qty |-> item.bom_qty,
         designator |-> item.designator, category |-> ItemCategory(item)]]

\* The _add calls _add_to_internal_bom(item) makes, in order
BomCalls(item) ==
    IF item.ignore_in_bom THEN <<>>
    ELSE IF item.class \in {"Connector", "Cable"}
    THEN (IF item.category = "bundle"
          THEN BundleCalls(item)
          ELSE <<[hash |-> item.bom_hash, qty |-> item.bom_qty,
                  designator |-> item.designator, category |-> ItemCategory(item)]>>)
         \o AdditionalCalls(item)
    ELSE <<[hash |-> item.bom_hash, qty |-> item.bom_qty,
            designator |-> None, category |-> "additional"]>>

RECURSIVE ApplyCalls(_, _)
ApplyCalls(b, calls) ==
    IF calls = <<>> THEN b
    ELSE ApplyCalls(BomAdd(b, Head(calls).hash, Head(calls).qty,
                           Head(calls).designator, Head(calls).category),
                    Tail(calls))

\* _add_to_internal_bom(item) on the mapping b
AddToInternalBom(b, item) == ApplyCalls(b, BomCalls(item))

RECURSIVE AddAll(_, _)
AddAll(b, items) ==
    IF items = <<>> THEN b
    ELSE AddAll(AddToInternalBom(b, Head(items)), Tail(items))

\* populate_bom on the mapping b
PopulateBom(b, conns, cbls, items) == AddAll(AddAll(AddAll(b, conns), cbls), items)

populate_bom ==
    /\ populate_runs < MaxPopulate
    /\ bom' = PopulateBom(bom, connectors, cables, additional_bom_items)
    /\ populate_runs' = populate_runs + 1
    /\ raised' = NoError
    /\ UNCHANGED <<connectors, cables, mates, additional_bom_items, cached_graph,
                   connect_runs, create_graph_runs>>

(***************************************************************************)
(* The graph and its cache.                                                *)
(***************************************************************************)
\* What create_graph reads of the harness: the graph is a function of it
create_graph(conns, cbls, mts) == [connectors |-> conns, cables |-> cbls, mates |-> mts]

\* GraphProperty building the graph at every access
GraphProperty_NoCache(cache, conns, cbls, mts) ==
    [cache |-> <<create_graph(conns, cbls, mts)>>, runs |-> 1]

\* The graph property: the cache after the access and whether create_graph ran
GraphProperty(cache, conns, cbls, mts) ==
    IF cache = <<>>
    THEN [cache |-> <<create_graph(conns, cbls, mts)>>, runs |-> 1]
    ELSE [cache |-> cache, runs |-> 0]

\* An access to self.graph, by the property itself, png, svg or output
GraphAccess(error) ==
    LET g == GraphProperty(cached_graph, connectors, cables, mates)
    IN  /\ cached_graph' = g.cache
        /\ create_graph_runs' = create_graph_runs + g.runs
        /\ raised' = error
        /\ UNCHANGED <<connectors, cables, mates, additional_bom_items, bom,
                       connect_runs, populate_runs>>

graph == GraphAccess(NoError)

png == GraphAccess(NoError)

\* svg calls embed_svg_images, a name the module does not import
svg == GraphAccess("NameError")

output == GraphAccess(NoError)

(***************************************************************************)
(* The harness after construction, and the calls made on it.               *)
(***************************************************************************)
Init ==
    /\ connectors = <<>>
    /\ cables = <<>>
    /\ mates = <<>>
    /\ additional_bom_items = <<>>
    /\ bom = EmptyBom
    /\ cached_graph = <<>>
    /\ raised = NoError
    /\ connect_runs = 0
    /\ create_graph_runs = 0
    /\ populate_runs = 0

NoBomFields == [ignore_in_bom |-> FALSE, bom_qty |-> 1, additional_components |-> <<>>]

\* A field-wise merge of two records
Merge(r1, r2) == [f \in DOMAIN r1 \cup DOMAIN r2 |-> IF f \in DOMAIN r1 THEN r1[f] ELSE r2[f]]

PlainConnector == Merge([pinlabels |-> <<>>, bom_hash |-> "hX"], NoBomFields)
LabelledConnector(pinlabels) == [PlainConnector EXCEPT !.pinlabels = pinlabels]
PlainCable ==
    Merge([category |-> "cable", colors |-> <<"RD", "BK", "GN">>, wirelabels |-> <<>>,
           wire_hashes |-> <<"hRD", "hBK", "hGN">>, bom_hash |-> "hW"], NoBomFields)
LabelledCable(colors, wirelabels) ==
    [PlainCable EXCEPT !.colors = colors, !.wirelabels = wirelabels]

PinLabelChoices == {<<>>} \cup [1..Len(Pins) -> LabelAlphabet]

(***************************************************************************)
(* Spec: connectors with every labelling, one cable, connect.              *)
(***************************************************************************)
ConnectorInputs(designator) ==
    IF designator = "X1"
    THEN {LabelledConnector(l) : l \in PinLabelChoices}
    ELSE {LabelledConnector(<<"A", "2">>)}
CableInputs == {LabelledCable(<<"RD", "BK", "GN">>, <<"RD", "RD", "BK">>)}
WireRefs == {StrRef("RD"), StrRef("BK"), StrRef("S")}
Endpoints == ConnectorNames \cup {None}

Next ==
    \/ \E d \in ConnectorNames : \E k \in ConnectorInputs(d) : add_connector(d, k)
    \/ \E d \in CableNames, k \in CableInputs : add_cable(d, k)
    \/ \E from_name \in Endpoints, from_pin \in PinRefs,
          via_name \in CableNames, via_wire \in WireRefs,
          to_name \in Endpoints, to_pin \in PinRefs :
            connect(from_name, from_pin, via_name, via_wire, to_name, to_pin)

Spec == Init /\ [][Next]_vars

(***************************************************************************)
(* What a reference is meant to resolve to, stated on positions.           *)
(***************************************************************************)
Positions(list, x) == {i \in 1..Len(list) : list[i] = x}

\* The three failure cases of a pin reference
PinReferenceFails(connector, ref) ==
    \/ \E i \in Positions(connector.pins, ref), j \in Positions(connector.pinlabels, ref) :
          i # j
    \/ Cardinality(Positions(connector.pinlabels, ref)) > 1
    \/ Positions(connector.pins, ref) = {} /\ Positions(connector.pinlabels, ref) = {}

\* The pin a reference that does not fail stands for
ExpectedPin(connector, ref) ==
    IF Positions(connector.pinlabels, ref) # {}
    THEN connector.pins[CHOOSE i \in Positions(connector.pinlabels, ref) : TRUE]
    ELSE ref

\* The wire a reference that does not fail stands for
ExpectedWire(cable, ref) ==
    IF IsInt(ref) THEN ref.int
    ELSE IF Positions(cable.colors, ref.str) # {}
    THEN CHOOSE i \in Positions(cable.colors, ref.str) : TRUE
    ELSE CHOOSE i \in Positions(cable.wirelabels, ref.str) : TRUE

ExpectedPinObject(conns, name, ref) ==
    IF name = None THEN NonePin ELSE PinObject(name, ExpectedPin(Get(conns, name), ref))

\* C2 for one call that raised nothing
ConnectionRecorded(r, from_name, from_pin, via_name, via_wire, to_name, to_pin) ==
    LET P_from == ExpectedPinObject(connectors, from_name, from_pin)
        P_to == ExpectedPinObject(connectors, to_name, to_pin)
        w == ExpectedWire(Get(cables, via_name), via_wire)
    IN  /\ Get(r.cables, via_name).connections =
              Append(Get(cables, via_name).connections, <<P_from, w, P_to>>)
        /\ from_name # None => Get(r.connectors, from_name).pin_objects[P_from.id].right
        /\ to_name # None => Get(r.connectors, to_name).pin_objects[P_to.id].left

\* C2: a connect call that succeeds appends exactly the record (P_from, w, P_to) of
\* the pins and the wire its three references resolve to, each endpoint resolved
\* against its own reference (also when both name the same connector), and marks
\* P_from active on the right and P_to active on the left.
C2_ConnectRecordsResolvedEndpoints ==
    \A from_name \in Endpoints, from_pin \in PinRefs, via_name \in CableNames,
       via_wire \in WireRefs, to_name \in Endpoints, to_pin \in PinRefs :
        LET r == ConnectResult(connectors, cables, from_name, from_pin, via_name,
                               via_wire, to_name, to_pin)
        IN  r.raised = NoError =>
                ConnectionRecorded(r, from_name, from_pin, via_name, via_wire,
                                   to_name, to_pin)

\* C3: a connect call that fails leaves the connectors, the cables and the mates
\* as they were.
C3_FailedConnectChangesNothing ==
    [][raised' # NoError =>
          /\ connectors' = connectors
          /\ cables' = cables
          /\ mates' = mates]_vars

\* A connect call failed at a lookup, after both checks, on a harness that has
\* connectors and a cable.
C3_Witness ==
    /\ raised = KeyError
    /\ Len(connectors) > 0
    /\ Len(cables) > 0

\* The outcome of connect's check for the reference ref to the connector name,
\* given as the from endpoint (to unset) or as the to endpoint (from unset)
AsFrom(name, ref) == CheckEndpoints(connectors, name, ref, None, ref)
AsTo(name, ref) == CheckEndpoints(connectors, None, ref, name, ref)

\* C4: for a registered connector the pin check of connect fails exactly when the
\* reference is in both lists at different positions, is a label that occurs more
\* than once, or is in neither list; otherwise a label maps to the pin at its
\* position and a pin identifier is used as it is.
C4_PinCheckFailsExactly ==
    \A i \in 1..Len(connectors) : \A ref \in PinRefs :
        LET c == connectors[i]
            f == AsFrom(c.designator, ref)
            t == AsTo(c.designator, ref)
        IN  /\ (f.raised # NoError) <=> PinReferenceFails(c, ref)
            /\ (t.raised # NoError) <=> PinReferenceFails(c, ref)
            /\ ~PinReferenceFails(c, ref) =>
                  /\ f.from_pin = ExpectedPin(c, ref)
                  /\ t.to_pin = ExpectedPin(c, ref)

\* A connect call failed on a label that two pins of a registered connector carry.
C4_Witness ==
    /\ raised = DuplicateError
    /\ \E i \in 1..Len(connectors) :
          \E ref \in PinRefs : Cardinality(Positions(connectors[i].pinlabels, ref)) > 1

\* C5 as claimed: every pin identifier of a registered connector resolves to
\* itself, whatever the pin labels are.
C5_OwnPinAlwaysResolves ==
    \A i \in 1..Len(connectors) : \A p \in Range(connectors[i].pins) :
        LET f == AsFrom(connectors[i].designator, p)
        IN  f.raised = NoError /\ f.from_pin = p

\* p is no label, or the label of its own pin only
NoForeignLabel(connector, p) ==
    Positions(connector.pinlabels, p) \subseteq Positions(connector.pins, p)

\* C5 amended: a pin identifier that is not the label of another pin, and is the
\* label of no pin twice, resolves to itself, and resolving the result again
\* gives the same pin.
C5_OwnPinResolvesUnlessLabelled ==
    \A i \in 1..Len(connectors) : \A p \in Range(connectors[i].pins) :
        LET c == connectors[i]
            f == AsFrom(c.designator, p)
            again == AsFrom(c.designator, f.from_pin)
        IN  NoForeignLabel(c, p) =>
                /\ f.raised = NoError /\ f.from_pin = p
                /\ again.raised = NoError /\ again.from_pin = f.from_pin

\* A connection was recorded on the right side of pin 2 of X1 while X1 labels
\* pin 2 with its own identifier.
C5_Witness ==
    /\ connect_runs > 0
    /\ Has(connectors, "X1")
    /\ Get(connectors, "X1").pinlabels = <<"A", "2">>
    /\ Get(connectors, "X1").pin_objects["2"].right

\* C6: a wire reference that occurs more than once in the colors, or more than
\* once in the wire labels, makes connect fail and record nothing.
C6_DuplicatedWireReferenceFails ==
    \A i \in 1..Len(cables) : \A via_wire \in WireRefs :
        LET cable == cables[i]
            r == ConnectResult(connectors, cables, None, "1", cable.designator,
                               via_wire, None, "1")
        IN  (\/ Cardinality(Positions(cable.colors, via_wire.str)) > 1
             \/ Cardinality(Positions(cable.wirelabels, via_wire.str)) > 1)
            => r.raised # NoError /\ r.cables = cables

(***************************************************************************)
(* SpecMate: connectors with every labelling, and the mates.               *)
(***************************************************************************)
NextMate ==
    \/ \E d \in ConnectorNames : \E k \in ConnectorInputs(d) : add_connector(d, k)
    \/ \E from_name \in ConnectorNames, from_pin \in PinRefs,
          to_name \in ConnectorNames, to_pin \in PinRefs :
            add_mate_pin(from_name, from_pin, to_name, to_pin)
    \/ \E from_name \in ConnectorNames, to_name \in ConnectorNames :
            add_mate_component(from_name, to_name)

SpecMate == Init /\ [][NextMate]_vars

\* C7: add_mate_pin fails exactly when connect's pin check fails for one of the
\* two references, and otherwise records the mate between the two pins that
\* connect resolves the references to.
C7_MatePinResolvesLikeConnect ==
    \A i \in 1..Len(connectors), j \in 1..Len(connectors) :
        \A from_pin \in PinRefs, to_pin \in PinRefs :
            LET from_name == connectors[i].designator
                to_name == connectors[j].designator
                m == MatePinResult(connectors, mates, from_name, from_pin, to_name, to_pin)
                f == AsFrom(from_name, from_pin)
                t == AsTo(to_name, to_pin)
            IN  /\ (m.raised # NoError) <=> (f.raised # NoError \/ t.raised # NoError)
                /\ m.raised = NoError =>
                      m.mates = Append(mates, MatePin(PinObject(from_name, f.from_pin),
                                                      PinObject(to_name, t.to_pin)))

(***************************************************************************)
(* SpecBom: components that differ in what the BOM reads, and populate_bom.*)
(***************************************************************************)
ExtraPart == [bom_hash |-> "hA", bom_qty |-> 1, ignore_in_bom |-> FALSE]
IgnoredPart == [bom_hash |-> "hI", bom_qty |-> 1, ignore_in_bom |-> TRUE]

BomConnectorInputs ==
    {[PlainConnector EXCEPT !.additional_components = <<AdditionalComponent(ExtraPart)>>]}
BomCableInputs ==
    {[PlainCable EXCEPT !.category = c, !.ignore_in_bom = i, !.bom_qty = 2,
                        !.additional_components = <<AdditionalComponent(IgnoredPart),
                                                    AdditionalComponent(ExtraPart)>>] :
        c \in {"bundle", "cable"}, i \in BOOLEAN}

NextBom ==
    \/ \E k \in BomConnectorInputs : add_connector("X1", k)
    \/ \E k \in BomCableInputs : add_cable("W1", k)
    \/ add_additional_bom_item(ExtraPart)
    \/ populate_bom

SpecBom == Init /\ [][NextBom]_vars

\* C1: populate_bom leaves the mapping that the current connectors, cables and
\* additional items alone determine, whatever populate_bom calls came before.
C1_PopulateRebuildsFromScratch ==
    [][populate_runs' = populate_runs + 1 =>
          bom' = PopulateBom(EmptyBom, connectors, cables, additional_bom_items)]_vars

\* The items populate_bom visits, in its order
VisitedItems == connectors \o cables \o additional_bom_items

Reordered(items, perm) == [i \in 1..Len(items) |-> items[perm[i]]]

RECURSIVE AllCalls(_)
AllCalls(items) ==
    IF items = <<>> THEN <<>> ELSE BomCalls(Head(items)) \o AllCalls(Tail(items))

RECURSIVE SumQty(_, _)
SumQty(calls, hash) ==
    IF calls = <<>> THEN 0
    ELSE (IF Head(calls).hash = hash THEN Head(calls).qty ELSE 0) + SumQty(Tail(calls), hash)

\* The category of the last of the calls made for the hash
LastCategory(calls, hash) ==
    calls[CHOOSE i \in 1..Len(calls) :
              calls[i].hash = hash /\ \A j \in (i + 1)..Len(calls) : calls[j].hash # hash].category

\* C8 as claimed: aggregated from an empty BOM in any order, the items yield the
\* same entry (quantity, designators and category) for every hash.
C8_AggregationIgnoresOrder ==
    \A perm \in Permutations(1..Len(VisitedItems)) :
        AddAll(EmptyBom, Reordered(VisitedItems, perm)) = AddAll(EmptyBom, VisitedItems)

\* C8 amended: aggregated from an empty BOM in any order, the items yield for
\* every hash the same quantity, the sum of the quantities contributed, and the
\* same designators; the category is that of the last contribution in that order.
C8_QuantitiesAndDesignatorsIgnoreOrder ==
    \A perm \in Permutations(1..Len(VisitedItems)) :
        LET items == Reordered(VisitedItems, perm)
            b1 == AddAll(EmptyBom, VisitedItems)
            b2 == AddAll(EmptyBom, items)
        IN  /\ DOMAIN b1 = DOMAIN b2
            /\ \A h \in DOMAIN b2 :
                  /\ b2[h].qty = b1[h].qty
                  /\ b2[h].qty = SumQty(AllCalls(VisitedItems), h)
                  /\ b2[h].designators = b1[h].designators
                  /\ b2[h].category = LastCategory(AllCalls(items), h)

\* populate_bom has merged the extra part of a connector with that of a cable:
\* one entry, both designators.
C8_Witness ==
    /\ populate_runs = 1
    /\ "hA" \in DOMAIN bom
    /\ bom["hA"].designators = {"X1", "W1"}
    /\ bom["hA"].qty >= 2

\* The positions of the additional components of a cable that are not ignored
KeptParts(cable) ==
    {i \in 1..Len(cable.additional_components) :
        ~cable.additional_components[i].ignore_in_bom}

\* C9: a bundle that is not ignored makes no addition under its own hash; it
\* makes, with its quantity and its designator, one 'wire' addition per wire under
\* the wire's hash, and then one 'wire_additional' addition under its designator
\* for each of its additional components that is not ignored.
C9_BundleContributesItsWires ==
    \A n \in 1..Len(cables) :
        LET cable == cables[n]
            calls == BomCalls(cable)
            wires == Len(cable.wire_objects)
            kept == KeptParts(cable)
            \* the position among the calls of the kept part at position i
            at(i) == wires + Cardinality({j \in kept : j <= i})
        IN  (cable.category = "bundle" /\ ~cable.ignore_in_bom) =>
                /\ \A k \in 1..Len(calls) : calls[k].hash # cable.bom_hash
                /\ cable.bom_hash \notin DOMAIN AddToInternalBom(EmptyBom, cable)
                /\ Len(calls) = wires + Cardinality(kept)
                /\ \A w \in 1..wires :
                      calls[w] = [hash |-> cable.wire_objects[w].bom_hash,
                                  qty |-> cable.bom_qty,
                                  designator |-> cable.designator,
                                  category |-> "wire"]
                /\ \A i \in kept :
                      calls[at(i)] = [hash |-> cable.additional_components[i].bom_hash,
                                      qty |-> cable.additional_components[i].bom_qty,
                                      designator |-> cable.designator,
                                      category |-> "wire_additional"]

\* populate_bom has run once on a harness whose only cable is a bundle that is not
\* ignored, and the BOM holds the bundle's wires and not the bundle.
C9_Witness ==
    /\ populate_runs = 1
    /\ Len(cables) = 1
    /\ cables[1].category = "bundle" /\ ~cables[1].ignore_in_bom
    /\ "hRD" \in DOMAIN bom /\ bom["hRD"].category = "wire"
    /\ "hW" \notin DOMAIN bom

(***************************************************************************)
(* SpecGraph: every call that changes the harness, and the graph accesses. *)
(***************************************************************************)
NextGraph ==
    \/ add_connector("X1", PlainConnector)
    \/ add_cable("W1", PlainCable)
    \/ connect("X1", "1", "W1", IntRef(1), None, "1")
    \/ add_mate_pin("X1", "1", "X1", "2")
    \/ add_mate_component("X1", "X1")
    \/ graph
    \/ png
    \/ svg
    \/ output

SpecGraph == Init /\ [][NextGraph]_vars

\* C10: create_graph runs at most once, and once the graph is cached no call
\* replaces it or runs create_graph again.
C10_GraphBuiltOnce ==
    [][/\ create_graph_runs' <= 1
       /\ cached_graph # <<>> =>
             /\ cached_graph' = cached_graph
             /\ create_graph_runs' = create_graph_runs]_vars

\* svg has just accessed the graph, and the graph it got is the one built before
\* a connection and a mate were added.
C10_Witness ==
    /\ raised = "NameError"
    /\ create_graph_runs = 1
    /\ cached_graph # <<>>
    /\ cached_graph[1].mates = <<>> /\ mates # <<>>
    /\ cached_graph[1].cables # cables

====
